---------------------------- MODULE Spec2Model ----------------------------
(***************************************************************************)
(* State-estimation nodes of the ART vehicle localization stack.           *)
(*                                                                         *)
(*   EKFEstimationNode    localization/ekf_estimation/ekf_estimation.py    *)
(*   StateEstimationNode  localization/localization_py/state_estimation.py *)
(*                                                                         *)
(* One behaviour of the model is one run of one node: Init is the node     *)
(* after __init__, and each step is one callback dispatched by rclpy.spin  *)
(* (a sensor subscription or the 10 Hz timer).                             *)
(*                                                                         *)
(* Numbers.  Python floats are modelled by integers: positions are whole   *)
(* units, headings are whole degrees, radians are milliradians, steering   *)
(* is in tenths.  NaN is a distinguished value that the arithmetic         *)
(* helpers propagate.                                                      *)
(***************************************************************************)
EXTENDS Integers, Sequences, FiniteSets, TLC

(***************************************************************************)
(* Bounds of the model.                                                    *)
(***************************************************************************)
\* number of callbacks dispatched in one run
MaxSteps == 4
\* the estimator's state components are kept modulo StateMod
StateMod == 2

(***************************************************************************)
(* Floats.                                                                 *)
(***************************************************************************)
NaN == -99999
\* an attribute that __init__ does not create (self.lat, self.lon, self.alt,
\* self.z, self.inputs) or creates as the empty string (self.gps)
NoAttr == -88888

isnan(v) == v = NaN

\* a negative float so small (-1e-20, say) that adding it to 360 gives 360
NegTiny == -77777

FAdd(a, b) == IF isnan(a) \/ isnan(b) THEN NaN ELSE a + b
FSub(a, b) == IF isnan(a) \/ isnan(b) THEN NaN ELSE a - b
FNeg(a) == IF isnan(a) THEN NaN ELSE 0 - a

\* node update frequency, Hz
freq == 10
\* (v) / self.dt_gps with dt_gps = 1 / freq
DivDtGps(v) == IF isnan(v) THEN NaN ELSE v * freq

\* np.deg2rad, degrees to milliradians
deg2rad(d) == (d * 3142) \div 180

\* self.steering / 2.2, steering in tenths, result in tenths
SteeringRatio(s) == (s * 10) \div 22

init_x == 0
init_y == 0
init_theta == 0
init_v == 0

(***************************************************************************)
(* Configuration values and messages.                                      *)
(***************************************************************************)
Nodes == {"EKFEstimationNode", "StateEstimationNode"}

\* a Python str, as returned by get_parameter_value().string_value
Str(s) == [type |-> "str", value |-> s]
\* a member of the Enum class EstimationAlgorithmOption
EstimationAlgorithmOption(v) == [type |-> "EstimationAlgorithmOption", value |-> v]
GROUND_TRUTH == EstimationAlgorithmOption("ground_truth")
EXTENDED_KALMAN_FILTER == EstimationAlgorithmOption("extended_kalman_filter")
PARTICLE_FILTER == EstimationAlgorithmOption("particle_filter")
\* the node has no such attribute
NoParam == [type |-> "none", value |-> ""]

AlgStrings == {"ground_truth", "extended_kalman_filter", "particle_filter"}

\* variant: the comparison written with != instead of ==
PyNe(a, b) == a.type /= b.type \/ a.value /= b.value
\* Python's a == b: a plain Enum member (no str mixin) is equal only to
\* itself, never to the string that is its value
PyEq(a, b) == a.type = b.type /\ a.value = b.value

\* NavSatFix samples
GpsFixes ==
    { [latitude |-> NaN, longitude |-> 0, altitude |-> 0],
      [latitude |-> 0,   longitude |-> 0, altitude |-> 0],
      [latitude |-> 1,   longitude |-> 2, altitude |-> 0],
      [latitude |-> 1,   longitude |-> NaN, altitude |-> 0] }

\* MagneticField samples (magnetic_field.x, .y, .z)
MagSamples == { <<1, 0, 0>>, <<0, 1, 0>>, <<0, -1, 0>>, <<-1, 0, 0>>,
                <<1, NegTiny, 0>> }

\* DriverInputs / VehicleInput samples
ControlSamples == { [throttle |-> 1, steering |-> 11],
                    [throttle |-> 0, steering |-> 0] }

\* ChVehicle samples
GroundTruthSamples == { [x |-> 1, y |-> 1, vx |-> 1, vy |-> 0] }

VARIABLES
    node,              \* which node class this run instantiates
    estimation_alg,    \* StateEstimationNode.estimation_alg
    use_sim_msg,       \* parameter use_sim_time
    ekf_vel_only,      \* EKFEstimationNode.ekf_vel_only
    has_ekf,           \* the attribute self.ekf exists
    has_pf,            \* the attribute self.pf exists
    gps,               \* self.gps, the last NavSatFix message
    inputs,            \* self.inputs, the last control message
    gps_ready,
    origin_set,
    orig_heading_set,
    lat, lon, alt,
    x, y, z,
    D,
    gtx, gty, gtvx, gtvy,
    throttle, steering,
    state,             \* <<x, y, theta, v>>
    graph,             \* the coordinate-transfer object
    set_graph_calls,   \* arguments of every graph.set_graph call, in order
    set_rotation_calls,\* arguments of every graph.set_rotation call, in order
    last,              \* the callback dispatched last and the calls it made
    fix_since_correct, \* a GPS fix arrived since the last tick that ran correct
    gps_count, mag_count, inputs_count, gt_count, tick_count,
    predict_count, correct_count, pf_count,
    pub_count          \* messages handed to self.pub_objects.publish

vars == << node, estimation_alg, use_sim_msg, ekf_vel_only, has_ekf, has_pf,
           gps, inputs, pub_count, gps_ready, origin_set, orig_heading_set, lat, lon, alt, x, y, z, D,
           gtx, gty, gtvx, gtvy, throttle, steering, state, graph,
           set_graph_calls, set_rotation_calls, last, fix_since_correct,
           gps_count, mag_count, inputs_count, gt_count, tick_count,
           predict_count, correct_count, pf_count >>

Steps == gps_count + mag_count + inputs_count + gt_count + tick_count

\* a tally of the timer's firings: the timer fires for as long as the node
\* spins, so a tally stops counting at MaxSteps
Tally(c, n) == IF c + n > MaxSteps THEN MaxSteps ELSE c + n

(***************************************************************************)
(* Collaborators whose code is outside the given sources: the EKF, the     *)
(* particle filter and the coordinate-transfer graph.                      *)
(***************************************************************************)
Wrap(v) == IF isnan(v) THEN NaN ELSE v % StateMod

\* EKF.predict(state, u): advance the state through the dynamics model
EKF_predict(s, u) ==
    << Wrap(FAdd(s[1], s[4])), Wrap(s[2]), Wrap(FAdd(s[3], u[2])), Wrap(FAdd(s[4], u[1])) >>

\* EKF.correct(state, z): pull (x, y, theta) to the observation
EKF_correct(s, obs) ==
    << Wrap(obs[1]), Wrap(obs[2]), Wrap(obs[3]), s[4] >>

\* ParticleFilter.update(u, z): predict and correct in one call
PF_update(s, u, obs) == EKF_correct(EKF_predict(s, u), obs)

NewGraph == [has_origin |-> FALSE, origin |-> <<0, 0, 0>>,
             has_rotation |-> FALSE, rotation |-> 0]

\* Graph.set_graph(lat, lon, alt)
Graph_set_graph(g, la, lo, al) ==
    IF g.has_origin THEN g
    ELSE [g EXCEPT !.has_origin = TRUE, !.origin = <<la, lo, al>>]

\* Graph.set_rotation(theta)
Graph_set_rotation(g, theta) ==
    IF g.has_rotation THEN g
    ELSE [g EXCEPT !.has_rotation = TRUE, !.rotation = theta]

\* Graph.gps2cartesian(lat, lon, alt): east, north, up of the fix from the origin
Graph_gps2cartesian(g, la, lo, al) ==
    << FSub(lo, g.origin[2]), FSub(la, g.origin[1]), FSub(al, g.origin[3]) >>

\* the stored rotation as a number of quarter turns
QuarterTurns(g) == ((2 * g.rotation + 1571) \div 3142) % 4

\* Graph.rotate(x, y, z)
Graph_rotate(g, px, py, pz) ==
    LET q == QuarterTurns(g)
    IN  CASE q = 0 -> << px, py, pz >>
          [] q = 1 -> << FNeg(py), px, pz >>
          [] q = 2 -> << FNeg(px), FNeg(py), pz >>
          [] OTHER -> << py, FNeg(px), pz >>

\* one call made by a callback: the operation, its arguments, what it
\* returned, and whether the callee's precondition held when it was called
Call(op, args, ret, pre) == [op |-> op, args |-> args, ret |-> ret, pre |-> pre]

Ops(calls) == [i \in 1..Len(calls) |-> calls[i].op]
CountOp(calls, op) == Cardinality({i \in 1..Len(calls) : calls[i].op = op})

Last(handler, calls) ==
    [handler |-> handler, calls |-> calls,
     pre_gps_ready |-> gps_ready, pre_state |-> state,
     pre_obs |-> << x, y >>,
     pre_fix_since_correct |-> fix_since_correct]


(***************************************************************************)
(* Heading from a magnetometer sample (mag_callback, both nodes).          *)
(***************************************************************************)
\* a field component times a positive constant
GaussOf(v, k) == IF v = NegTiny THEN NegTiny ELSE v * k

\* self.D + 360 in floats: a NegTiny term is absorbed by the rounding
DegAdd(d, k) == IF d = NegTiny THEN k ELSE d + k

\* math.atan2(yGauss, xGauss) * 180 / math.pi, to the nearest degree, for
\* the field directions of MagSamples (axes and diagonals); a NegTiny
\* yGauss against a positive xGauss gives a NegTiny angle
Atan2Deg(yG, xG) ==
    CASE yG = NegTiny /\ xG > 0 -> NegTiny
      [] yG = 0 /\ xG > 0 -> 0
      [] yG = 0 /\ xG < 0 -> 180
      [] yG > 0 /\ xG > 0 -> 45
      [] yG > 0 /\ xG = 0 -> 90
      [] yG > 0 /\ xG < 0 -> 135
      [] yG < 0 /\ xG < 0 -> -135
      [] yG < 0 /\ xG = 0 -> -90
      [] yG < 0 /\ yG /= NegTiny /\ xG > 0 -> -45
      [] OTHER -> 0

RECURSIVE WhileAbove360(_)
WhileAbove360(d) == IF d > 360 THEN WhileAbove360(d - 360) ELSE d

RECURSIVE WhileBelow0(_)
WhileBelow0(d) == IF d < 0 THEN WhileBelow0(DegAdd(d, 360)) ELSE d

\* xGauss in units of 1e-8, yGauss in units of 1e-7
Heading(msg) ==
    LET xGauss == GaussOf(msg[1], 48828125)
        yGauss == GaussOf(msg[2], 4882815)
        d == IF xGauss = 0
             THEN (IF yGauss < 0 THEN 0 ELSE 90)
             ELSE Atan2Deg(yGauss, xGauss)
    IN  WhileBelow0(WhileAbove360(d))

(***************************************************************************)
(* EKFEstimationNode                                                       *)
(***************************************************************************)
\* variant: a sample that arrives while an earlier one is buffered does
\* not overwrite it
EKF_inputs_callback_keep_first(msg) ==
    /\ inputs' = msg
    /\ steering' = IF inputs_count = 0 THEN msg.steering ELSE steering
    /\ throttle' = IF inputs_count = 0 THEN msg.throttle ELSE throttle
    /\ inputs_count' = inputs_count + 1
    /\ last' = Last("inputs", << >>)
    /\ UNCHANGED << node, gps, pub_count, estimation_alg, use_sim_msg, ekf_vel_only, has_ekf, has_pf,
                    gps_ready, origin_set, orig_heading_set, lat, lon, alt, x, y, z, D,
                    gtx, gty, gtvx, gtvy, state, graph, set_graph_calls,
                    set_rotation_calls, fix_since_correct, gps_count, mag_count,
                    gt_count, tick_count, predict_count, correct_count, pf_count >>

EKF_inputs_callback(msg) ==
    /\ inputs' = msg
    /\ steering' = msg.steering
    /\ throttle' = msg.throttle
    /\ inputs_count' = inputs_count + 1
    /\ last' = Last("inputs", << >>)
    /\ UNCHANGED << node, gps, pub_count, estimation_alg, use_sim_msg, ekf_vel_only, has_ekf, has_pf,
                    gps_ready, origin_set, orig_heading_set, lat, lon, alt, x, y, z, D,
                    gtx, gty, gtvx, gtvy, state, graph, set_graph_calls,
                    set_rotation_calls, fix_since_correct, gps_count, mag_count,
                    gt_count, tick_count, predict_count, correct_count, pf_count >>

\* variant: the rotation is set again by every magnetometer sample
EKF_mag_callback_relatch(msg) ==
    LET d == Heading(msg)
        theta == deg2rad(d) - init_theta
    IN  /\ D' = d
        /\ orig_heading_set' = TRUE
        /\ graph' = [graph EXCEPT !.has_rotation = TRUE, !.rotation = theta]
        /\ set_rotation_calls' = Append(set_rotation_calls, theta)
        /\ state' = [state EXCEPT ![3] = init_theta]
        /\ last' = Last("mag", << Call("set_rotation", << theta >>, << >>, TRUE) >>)
        /\ mag_count' = mag_count + 1
        /\ UNCHANGED << node, gps, inputs, pub_count, estimation_alg, use_sim_msg, ekf_vel_only, has_ekf, has_pf,
                        gps_ready, origin_set, lat, lon, alt, x, y, z,
                        gtx, gty, gtvx, gtvy, throttle, steering, set_graph_calls,
                        fix_since_correct, gps_count, inputs_count,
                        gt_count, tick_count, predict_count, correct_count, pf_count >>

EKF_mag_callback(msg) ==
    LET d == Heading(msg)
        theta == deg2rad(d) - init_theta
    IN  /\ D' = d
        /\ IF ~orig_heading_set
           THEN /\ orig_heading_set' = TRUE
                /\ graph' = Graph_set_rotation(graph, theta)
                /\ set_rotation_calls' = Append(set_rotation_calls, theta)
                /\ state' = [state EXCEPT ![3] = init_theta]
                /\ last' = Last("mag", << Call("set_rotation", << theta >>, << >>, TRUE) >>)
           ELSE /\ UNCHANGED << orig_heading_set, graph, set_rotation_calls, state >>
                /\ last' = Last("mag", << >>)
        /\ mag_count' = mag_count + 1
        /\ UNCHANGED << node, gps, inputs, pub_count, estimation_alg, use_sim_msg, ekf_vel_only, has_ekf, has_pf,
                        gps_ready, origin_set, lat, lon, alt, x, y, z,
                        gtx, gty, gtvx, gtvy, throttle, steering, set_graph_calls,
                        fix_since_correct, gps_count, inputs_count,
                        gt_count, tick_count, predict_count, correct_count, pf_count >>

\* variant: the origin is set only once the heading is set, as the
\* docstring of gps_callback words it
EKF_gps_callback_heading_first(msg) ==
    LET nan == isnan(msg.latitude)
        la == IF nan THEN -10 ELSE msg.latitude
        lo == IF nan THEN -10 ELSE msg.longitude
        al == IF nan THEN -10 ELSE msg.altitude
        setnow == ~origin_set /\ orig_heading_set
        g1 == IF setnow THEN Graph_set_graph(graph, la, lo, al) ELSE graph
        c1 == IF setnow
              THEN << Call("set_graph", << la, lo, al >>, << >>, TRUE) >>
              ELSE << >>
        p == Graph_gps2cartesian(g1, la, lo, al)
        c2 == << Call("gps2cartesian", << la, lo, al >>, p, g1.has_origin) >>
        new == Graph_rotate(g1, p[1], p[2], p[3])
        c3 == IF orig_heading_set
              THEN << Call("rotate", p, new, g1.has_rotation) >>
              ELSE << >>
    IN  /\ gps' = msg
        /\ gps_ready' = TRUE
        /\ lat' = la
        /\ lon' = lo
        /\ alt' = al
        /\ origin_set' = (origin_set \/ setnow)
        /\ graph' = g1
        /\ set_graph_calls' = IF setnow
                              THEN Append(set_graph_calls, << la, lo, al >>)
                              ELSE set_graph_calls
        /\ IF orig_heading_set
           THEN /\ gtvx' = DivDtGps(FSub(new[1], x))
                /\ gtvy' = DivDtGps(FSub(new[2], y))
                /\ x' = FAdd(new[1], init_x)
                /\ y' = FAdd(new[2], init_y)
                /\ z' = new[3]
           ELSE UNCHANGED << gtvx, gtvy, x, y, z >>
        /\ last' = Last("gps", c1 \o c2 \o c3)
        /\ fix_since_correct' = TRUE
        /\ gps_count' = gps_count + 1
        /\ UNCHANGED << node, inputs, pub_count, estimation_alg, use_sim_msg, ekf_vel_only, has_ekf, has_pf,
                        orig_heading_set, D, gtx, gty, throttle, steering, state,
                        set_rotation_calls, mag_count, inputs_count,
                        gt_count, tick_count, predict_count, correct_count, pf_count >>

\* variant: only the x half of the new position is stored; y keeps the value of an earlier fix
EKF_gps_callback_torn(msg) ==
    LET nan == isnan(msg.latitude)
        la == IF nan THEN -10 ELSE msg.latitude
        lo == IF nan THEN -10 ELSE msg.longitude
        al == IF nan THEN -10 ELSE msg.altitude
        g1 == IF ~origin_set THEN Graph_set_graph(graph, la, lo, al) ELSE graph
        c1 == IF ~origin_set
              THEN << Call("set_graph", << la, lo, al >>, << >>, TRUE) >>
              ELSE << >>
        p == Graph_gps2cartesian(g1, la, lo, al)
        c2 == << Call("gps2cartesian", << la, lo, al >>, p, g1.has_origin) >>
        new == Graph_rotate(g1, p[1], p[2], p[3])
        c3 == IF orig_heading_set
              THEN << Call("rotate", p, new, g1.has_rotation) >>
              ELSE << >>
    IN  /\ gps' = msg
        /\ gps_ready' = TRUE
        /\ lat' = la
        /\ lon' = lo
        /\ alt' = al
        /\ origin_set' = TRUE
        /\ graph' = g1
        /\ set_graph_calls' = IF ~origin_set
                              THEN Append(set_graph_calls, << la, lo, al >>)
                              ELSE set_graph_calls
        /\ IF orig_heading_set
           THEN /\ gtvx' = DivDtGps(FSub(new[1], x))
                /\ gtvy' = DivDtGps(FSub(new[2], y))
                /\ x' = FAdd(new[1], init_x)
                /\ y' = y
                /\ z' = new[3]
           ELSE UNCHANGED << gtvx, gtvy, x, y, z >>
        /\ last' = Last("gps", c1 \o c2 \o c3)
        /\ fix_since_correct' = TRUE
        /\ gps_count' = gps_count + 1
        /\ UNCHANGED << node, inputs, pub_count, estimation_alg, use_sim_msg, ekf_vel_only, has_ekf, has_pf,
                        orig_heading_set, D, gtx, gty, throttle, steering, state,
                        set_rotation_calls, mag_count, inputs_count,
                        gt_count, tick_count, predict_count, correct_count, pf_count >>

\* variant: a fix is buffered without raising the freshness flag
EKF_gps_callback_no_flag(msg) ==
    LET nan == isnan(msg.latitude)
        la == IF nan THEN -10 ELSE msg.latitude
        lo == IF nan THEN -10 ELSE msg.longitude
        al == IF nan THEN -10 ELSE msg.altitude
        g1 == IF ~origin_set THEN Graph_set_graph(graph, la, lo, al) ELSE graph
        c1 == IF ~origin_set
              THEN << Call("set_graph", << la, lo, al >>, << >>, TRUE) >>
              ELSE << >>
        p == Graph_gps2cartesian(g1, la, lo, al)
        c2 == << Call("gps2cartesian", << la, lo, al >>, p, g1.has_origin) >>
        new == Graph_rotate(g1, p[1], p[2], p[3])
        c3 == IF orig_heading_set
              THEN << Call("rotate", p, new, g1.has_rotation) >>
              ELSE << >>
    IN  /\ gps' = msg
        /\ gps_ready' = gps_ready
        /\ lat' = la
        /\ lon' = lo
        /\ alt' = al
        /\ origin_set' = TRUE
        /\ graph' = g1
        /\ set_graph_calls' = IF ~origin_set
                              THEN Append(set_graph_calls, << la, lo, al >>)
                              ELSE set_graph_calls
        /\ IF orig_heading_set
           THEN /\ gtvx' = DivDtGps(FSub(new[1], x))
                /\ gtvy' = DivDtGps(FSub(new[2], y))
                /\ x' = FAdd(new[1], init_x)
                /\ y' = FAdd(new[2], init_y)
                /\ z' = new[3]
           ELSE UNCHANGED << gtvx, gtvy, x, y, z >>
        /\ last' = Last("gps", c1 \o c2 \o c3)
        /\ fix_since_correct' = TRUE
        /\ gps_count' = gps_count + 1
        /\ UNCHANGED << node, inputs, pub_count, estimation_alg, use_sim_msg, ekf_vel_only, has_ekf, has_pf,
                        orig_heading_set, D, gtx, gty, throttle, steering, state,
                        set_rotation_calls, mag_count, inputs_count,
                        gt_count, tick_count, predict_count, correct_count, pf_count >>

EKF_gps_callback(msg) ==
    LET nan == isnan(msg.latitude)
        la == IF nan THEN -10 ELSE msg.latitude
        lo == IF nan THEN -10 ELSE msg.longitude
        al == IF nan THEN -10 ELSE msg.altitude
        g1 == IF ~origin_set THEN Graph_set_graph(graph, la, lo, al) ELSE graph
        c1 == IF ~origin_set
              THEN << Call("set_graph", << la, lo, al >>, << >>, TRUE) >>
              ELSE << >>
        p == Graph_gps2cartesian(g1, la, lo, al)
        c2 == << Call("gps2cartesian", << la, lo, al >>, p, g1.has_origin) >>
        new == Graph_rotate(g1, p[1], p[2], p[3])
        c3 == IF orig_heading_set
              THEN << Call("rotate", p, new, g1.has_rotation) >>
              ELSE << >>
    IN  /\ gps' = msg
        /\ gps_ready' = TRUE
        /\ lat' = la
        /\ lon' = lo
        /\ alt' = al
        /\ origin_set' = TRUE
        /\ graph' = g1
        /\ set_graph_calls' = IF ~origin_set
                              THEN Append(set_graph_calls, << la, lo, al >>)
                              ELSE set_graph_calls
        /\ IF orig_heading_set
           THEN /\ gtvx' = DivDtGps(FSub(new[1], x))
                /\ gtvy' = DivDtGps(FSub(new[2], y))
                /\ x' = FAdd(new[1], init_x)
                /\ y' = FAdd(new[2], init_y)
                /\ z' = new[3]
           ELSE UNCHANGED << gtvx, gtvy, x, y, z >>
        /\ last' = Last("gps", c1 \o c2 \o c3)
        /\ fix_since_correct' = TRUE
        /\ gps_count' = gps_count + 1
        /\ UNCHANGED << node, inputs, pub_count, estimation_alg, use_sim_msg, ekf_vel_only, has_ekf, has_pf,
                        orig_heading_set, D, gtx, gty, throttle, steering, state,
                        set_rotation_calls, mag_count, inputs_count,
                        gt_count, tick_count, predict_count, correct_count, pf_count >>

\* variant: the freshness flag is not cleared after correct
EKFstep_keeps_flag(s, ready, u, obs) ==
    LET s1 == EKF_predict(s, u)
        s2 == EKF_correct(s1, obs)
    IN  IF ready
        THEN [state |-> s2, gps_ready |-> ready,
              calls |-> << Call("predict", << s, u >>, s1, TRUE),
                           Call("correct", << s1, obs >>, s2, TRUE) >>]
        ELSE [state |-> s1, gps_ready |-> ready,
              calls |-> << Call("predict", << s, u >>, s1, TRUE) >>]

\* variant: the result of predict is not stored before correct reads self.state
EKFstep_stale(s, ready, u, obs) ==
    LET s1 == EKF_predict(s, u)
        s2 == EKF_correct(s, obs)
    IN  IF ready
        THEN [state |-> s2, gps_ready |-> FALSE,
              calls |-> << Call("predict", << s, u >>, s1, TRUE),
                           Call("correct", << s, obs >>, s2, TRUE) >>]
        ELSE [state |-> s1, gps_ready |-> ready,
              calls |-> << Call("predict", << s, u >>, s1, TRUE) >>]

\* the result of EKFstep(u, z) on self.state = s, self.gps_ready = ready
EKFstep(s, ready, u, obs) ==
    LET s1 == EKF_predict(s, u)
        s2 == EKF_correct(s1, obs)
    IN  IF ready
        THEN [state |-> s2, gps_ready |-> FALSE,
              calls |-> << Call("predict", << s, u >>, s1, TRUE),
                           Call("correct", << s1, obs >>, s2, TRUE) >>]
        ELSE [state |-> s1, gps_ready |-> ready,
              calls |-> << Call("predict", << s, u >>, s1, TRUE) >>]

\* msg.twist.linear: float(v * math.cos(theta)), float(v * math.sin(theta)),
\* or float(v) with fn = "id"
Twist(fn, v, th) == [fn |-> fn, v |-> v, th |-> th]

\* the number a twist component holds, where integer arithmetic gives it
\* (cos 0 = 1, sin 0 = 0, 0 * anything = 0)
TwistValue(t) ==
    CASE t.fn = "id" -> t.v
      [] t.v = 0 -> 0
      [] t.fn = "cos" /\ t.th = 0 -> t.v
      [] t.fn = "sin" /\ t.th = 0 -> 0
      [] OTHER -> NaN

VehicleState(px, py, oz, vx, vy) ==
    [position_x |-> px, position_y |-> py, orientation_z |-> oz,
     linear_x |-> vx, linear_y |-> vy]

\* variant: the estimate is published only on a tick that had a fresh observation
EKF_pub_callback_fresh_only ==
    \E r \in { EKFstep(state, gps_ready, << throttle, SteeringRatio(steering) >>,
                       << x, y, deg2rad(D) >>) } :
    \E s \in { r.state } :
    \E msg \in { VehicleState(IF ekf_vel_only THEN x ELSE s[1],
                              IF ekf_vel_only THEN y ELSE s[2],
                              s[3], Twist("cos", s[4], s[3]), Twist("sin", s[4], s[3])) } :
    \E calls \in { r.calls \o (IF gps_ready
                              THEN << Call("publish", << msg >>, << >>, TRUE) >>
                              ELSE << >>) } :
        /\ has_ekf
        /\ state' = s
        /\ gps_ready' = r.gps_ready
        /\ last' = Last("tick", calls)
        /\ predict_count' = Tally(predict_count, CountOp(calls, "predict"))
        /\ correct_count' = Tally(correct_count, CountOp(calls, "correct"))
        /\ fix_since_correct' = IF CountOp(calls, "correct") > 0 THEN FALSE
                                ELSE fix_since_correct
        /\ pub_count' = Tally(pub_count, CountOp(calls, "publish"))
        /\ tick_count' = Tally(tick_count, 1)
        /\ UNCHANGED << node, gps, inputs, estimation_alg, use_sim_msg, ekf_vel_only, has_ekf, has_pf,
                        origin_set, orig_heading_set, lat, lon, alt, x, y, z, D,
                        gtx, gty, gtvx, gtvy, throttle, steering, graph,
                        set_graph_calls, set_rotation_calls, gps_count, mag_count,
                        inputs_count, gt_count, pf_count >>

\* u, z, the result of EKFstep and the message are computed once and bound once
EKF_pub_callback ==
    \E r \in { EKFstep(state, gps_ready, << throttle, SteeringRatio(steering) >>,
                       << x, y, deg2rad(D) >>) } :
    \E s \in { r.state } :
    \E msg \in { VehicleState(IF ekf_vel_only THEN x ELSE s[1],
                              IF ekf_vel_only THEN y ELSE s[2],
                              s[3], Twist("cos", s[4], s[3]), Twist("sin", s[4], s[3])) } :
    \E calls \in { r.calls \o << Call("publish", << msg >>, << >>, TRUE) >> } :
        /\ has_ekf
        /\ state' = s
        /\ gps_ready' = r.gps_ready
        /\ last' = Last("tick", calls)
        /\ predict_count' = Tally(predict_count, CountOp(calls, "predict"))
        /\ correct_count' = Tally(correct_count, CountOp(calls, "correct"))
        /\ fix_since_correct' = IF CountOp(calls, "correct") > 0 THEN FALSE
                                ELSE fix_since_correct
        /\ pub_count' = Tally(pub_count, CountOp(calls, "publish"))
        /\ tick_count' = Tally(tick_count, 1)
        /\ UNCHANGED << node, gps, inputs, estimation_alg, use_sim_msg, ekf_vel_only, has_ekf, has_pf,
                        origin_set, orig_heading_set, lat, lon, alt, x, y, z, D,
                        gtx, gty, gtvx, gtvy, throttle, steering, graph,
                        set_graph_calls, set_rotation_calls, gps_count, mag_count,
                        inputs_count, gt_count, pf_count >>

(***************************************************************************)
(* StateEstimationNode                                                     *)
(***************************************************************************)
SE_inputs_callback(msg) ==
    /\ inputs' = msg
    /\ steering' = msg.steering
    /\ throttle' = msg.throttle
    /\ inputs_count' = inputs_count + 1
    /\ last' = Last("inputs", << >>)
    /\ UNCHANGED << node, gps, pub_count, estimation_alg, use_sim_msg, ekf_vel_only, has_ekf, has_pf,
                    gps_ready, origin_set, orig_heading_set, lat, lon, alt, x, y, z, D,
                    gtx, gty, gtvx, gtvy, state, graph, set_graph_calls,
                    set_rotation_calls, fix_since_correct, gps_count, mag_count,
                    gt_count, tick_count, predict_count, correct_count, pf_count >>

SE_ground_truth_callback(msg) ==
    /\ gtx' = msg.x
    /\ gty' = msg.y
    /\ gtvx' = msg.vx
    /\ gtvy' = msg.vy
    /\ gt_count' = gt_count + 1
    /\ last' = Last("ground_truth", << >>)
    /\ UNCHANGED << node, gps, inputs, pub_count, estimation_alg, use_sim_msg, ekf_vel_only, has_ekf, has_pf,
                    gps_ready, origin_set, orig_heading_set, lat, lon, alt, x, y, z, D,
                    throttle, steering, state, graph, set_graph_calls,
                    set_rotation_calls, fix_since_correct, gps_count, mag_count,
                    inputs_count, tick_count, predict_count, correct_count, pf_count >>

SE_mag_callback(msg) ==
    LET d == Heading(msg)
        theta == deg2rad(d) - init_theta
    IN  /\ D' = d
        /\ IF ~orig_heading_set
           THEN /\ orig_heading_set' = TRUE
                /\ graph' = Graph_set_rotation(graph, theta)
                /\ set_rotation_calls' = Append(set_rotation_calls, theta)
                /\ state' = [state EXCEPT ![3] = init_theta]
                /\ last' = Last("mag", << Call("set_rotation", << theta >>, << >>, TRUE) >>)
           ELSE /\ UNCHANGED << orig_heading_set, graph, set_rotation_calls, state >>
                /\ last' = Last("mag", << >>)
        /\ mag_count' = mag_count + 1
        /\ UNCHANGED << node, gps, inputs, pub_count, estimation_alg, use_sim_msg, ekf_vel_only, has_ekf, has_pf,
                        gps_ready, origin_set, lat, lon, alt, x, y, z,
                        gtx, gty, gtvx, gtvy, throttle, steering, set_graph_calls,
                        fix_since_correct, gps_count, inputs_count,
                        gt_count, tick_count, predict_count, correct_count, pf_count >>

SE_gps_callback(msg) ==
    LET nan == isnan(msg.latitude)
        la == IF nan THEN -10 ELSE msg.latitude
        lo == IF nan THEN -10 ELSE msg.longitude
        al == IF nan THEN -10 ELSE msg.altitude
        g1 == IF ~origin_set THEN Graph_set_graph(graph, la, lo, al) ELSE graph
        c1 == IF ~origin_set
              THEN << Call("set_graph", << la, lo, al >>, << >>, TRUE) >>
              ELSE << >>
        p == Graph_gps2cartesian(g1, la, lo, al)
        c2 == << Call("gps2cartesian", << la, lo, al >>, p, g1.has_origin) >>
        new == Graph_rotate(g1, p[1], p[2], p[3])
        c3 == IF orig_heading_set
              THEN << Call("rotate", p, new, g1.has_rotation) >>
              ELSE << >>
    IN  /\ gps' = msg
        /\ gps_ready' = TRUE
        /\ lat' = la
        /\ lon' = lo
        /\ alt' = al
        /\ origin_set' = TRUE
        /\ graph' = g1
        /\ set_graph_calls' = IF ~origin_set
                              THEN Append(set_graph_calls, << la, lo, al >>)
                              ELSE set_graph_calls
        /\ IF orig_heading_set
           THEN /\ x' = FAdd(new[1], init_x)
                /\ y' = FAdd(new[2], init_y)
                /\ z' = new[3]
           ELSE UNCHANGED << x, y, z >>
        /\ last' = Last("gps", c1 \o c2 \o c3)
        /\ fix_since_correct' = TRUE
        /\ gps_count' = gps_count + 1
        /\ UNCHANGED << node, inputs, pub_count, estimation_alg, use_sim_msg, ekf_vel_only, has_ekf, has_pf,
                        orig_heading_set, D, gtx, gty, gtvx, gtvy, throttle, steering,
                        state, set_rotation_calls, mag_count, inputs_count,
                        gt_count, tick_count, predict_count, correct_count, pf_count >>

\* the result of StateEstimationNode.EKFstep(u, z)
SE_EKFstep(s, ready, u, obs) ==
    LET s1 == EKF_predict(s, u)
        s2 == EKF_correct(s1, obs)
    IN  IF ready
        THEN [state |-> s2, gps_ready |-> FALSE,
              calls |-> << Call("predict", << s, u >>, s1, TRUE),
                           Call("correct", << s1, obs >>, s2, TRUE) >>]
        ELSE [state |-> s1, gps_ready |-> ready,
              calls |-> << Call("predict", << s, u >>, s1, TRUE) >>]

\* the result of StateEstimationNode.PFstep(u, z)
SE_PFstep(s, ready, u, obs) ==
    LET s1 == PF_update(s, u, obs)
    IN  [state |-> s1, gps_ready |-> ready,
         calls |-> << Call("update", << u, obs >>, s1, TRUE) >>]

\* which branch of "if ... == EXTENDED_KALMAN_FILTER / elif ... == PARTICLE_FILTER"
\* is taken for the parameter value alg
SE_branch(alg) ==
    IF PyEq(alg, EXTENDED_KALMAN_FILTER) THEN "ekf"
    ELSE IF PyEq(alg, PARTICLE_FILTER) THEN "pf"
    ELSE "none"

SE_pub_callback ==
    LET u == << throttle, SteeringRatio(steering) >>
        obs == << x, y, deg2rad(D) >>
        b == SE_branch(estimation_alg)
        r == CASE b = "ekf" -> SE_EKFstep(state, gps_ready, u, obs)
               [] b = "pf"  -> SE_PFstep(state, gps_ready, u, obs)
               [] OTHER     -> [state |-> state, gps_ready |-> gps_ready, calls |-> << >>]
        s == r.state
        msg == IF PyEq(estimation_alg, GROUND_TRUTH)
               THEN VehicleState(gtx, gty, deg2rad(D),
                                 Twist("id", gtvx, 0), Twist("id", gtvy, 0))
               ELSE VehicleState(s[1], s[2], s[3],
                                 Twist("cos", s[4], s[3]), Twist("sin", s[4], s[3]))
        calls == r.calls \o << Call("publish", << msg >>, << >>, TRUE) >>
    IN  \* self.ekf / self.pf must exist where it is used
        /\ b = "ekf" => has_ekf
        /\ b = "pf" => has_pf
        /\ state' = s
        /\ gps_ready' = r.gps_ready
        /\ last' = Last("tick", calls)
        /\ predict_count' = predict_count + CountOp(calls, "predict")
        /\ correct_count' = correct_count + CountOp(calls, "correct")
        /\ pf_count' = pf_count + CountOp(calls, "update")
        /\ fix_since_correct' = IF CountOp(calls, "correct") > 0 THEN FALSE
                                ELSE fix_since_correct
        /\ pub_count' = pub_count + CountOp(calls, "publish")
        /\ tick_count' = tick_count + 1
        /\ UNCHANGED << node, gps, inputs, estimation_alg, use_sim_msg, ekf_vel_only, has_ekf, has_pf,
                        origin_set, orig_heading_set, lat, lon, alt, x, y, z, D,
                        gtx, gty, gtvx, gtvy, throttle, steering, graph,
                        set_graph_calls, set_rotation_calls, gps_count, mag_count,
                        inputs_count, gt_count >>

(***************************************************************************)
(* Construction and dispatch.                                              *)
(***************************************************************************)
\* the fields both __init__ methods set the same way
InitCommon ==
    /\ gps = [latitude |-> NoAttr, longitude |-> NoAttr, altitude |-> NoAttr]
    /\ inputs = [throttle |-> NoAttr, steering |-> NoAttr]
    /\ pub_count = 0
    /\ gps_ready = FALSE
    /\ origin_set = FALSE
    /\ orig_heading_set = FALSE
    /\ lat = NoAttr /\ lon = NoAttr /\ alt = NoAttr
    /\ x = 0 /\ y = 0 /\ z = NoAttr
    /\ D = 0
    /\ gtx = 0 /\ gty = 0 /\ gtvx = 0 /\ gtvy = 0
    /\ throttle = 0 /\ steering = 0
    /\ state = << init_x, init_y, init_theta, init_v >>
    /\ graph = NewGraph
    /\ set_graph_calls = << >>
    /\ set_rotation_calls = << >>
    /\ last = [handler |-> "init", calls |-> << >>, pre_gps_ready |-> FALSE,
               pre_state |-> << init_x, init_y, init_theta, init_v >>,
               pre_obs |-> << 0, 0 >>,
               pre_fix_since_correct |-> FALSE]
    /\ fix_since_correct = FALSE
    /\ gps_count = 0 /\ mag_count = 0 /\ inputs_count = 0 /\ gt_count = 0
    /\ tick_count = 0 /\ predict_count = 0 /\ correct_count = 0 /\ pf_count = 0

EKF_init ==
    /\ node = "EKFEstimationNode"
    /\ estimation_alg = NoParam
    /\ use_sim_msg \in BOOLEAN
    /\ ekf_vel_only \in BOOLEAN
    /\ has_ekf = TRUE
    /\ has_pf = FALSE
    /\ InitCommon

SE_init ==
    /\ node = "StateEstimationNode"
    /\ estimation_alg \in { Str(a) : a \in AlgStrings }
    /\ use_sim_msg \in BOOLEAN
    /\ ekf_vel_only = FALSE
    /\ has_ekf = (SE_branch(estimation_alg) = "ekf")
    /\ has_pf = (SE_branch(estimation_alg) = "pf")
    /\ InitCommon

Init == EKF_init \/ SE_init

\* rclpy.spin(estimator): one callback at a time
EKF_spin_gps ==
    /\ node = "EKFEstimationNode" /\ Steps < MaxSteps
    /\ \E msg \in GpsFixes : EKF_gps_callback(msg)

EKF_spin_mag ==
    /\ node = "EKFEstimationNode" /\ Steps < MaxSteps
    /\ \E msg \in MagSamples : EKF_mag_callback(msg)

EKF_spin_inputs ==
    /\ node = "EKFEstimationNode" /\ Steps < MaxSteps
    /\ \E msg \in ControlSamples : EKF_inputs_callback(msg)

EKF_spin_timer ==
    /\ node = "EKFEstimationNode" /\ Steps < MaxSteps
    /\ EKF_pub_callback

SE_spin_gps ==
    /\ node = "StateEstimationNode" /\ Steps < MaxSteps
    /\ \E msg \in GpsFixes : SE_gps_callback(msg)

SE_spin_ground_truth ==
    /\ node = "StateEstimationNode" /\ Steps < MaxSteps
    /\ use_sim_msg
    /\ \E msg \in GroundTruthSamples : SE_ground_truth_callback(msg)

SE_spin_mag ==
    /\ node = "StateEstimationNode" /\ Steps < MaxSteps
    /\ \E msg \in MagSamples : SE_mag_callback(msg)

SE_spin_inputs ==
    /\ node = "StateEstimationNode" /\ Steps < MaxSteps
    /\ \E msg \in ControlSamples : SE_inputs_callback(msg)

SE_spin_timer ==
    /\ node = "StateEstimationNode" /\ Steps < MaxSteps
    /\ SE_pub_callback

Next ==
    \/ EKF_spin_gps
    \/ EKF_spin_mag
    \/ EKF_spin_inputs
    \/ EKF_spin_timer
    \/ SE_spin_gps
    \/ SE_spin_ground_truth
    \/ SE_spin_mag
    \/ SE_spin_inputs
    \/ SE_spin_timer

Spec == Init /\ [][Next]_vars

\* EKFEstimationNode constructed with its parameters at their defaults
EKF_live_init ==
    /\ EKF_init
    /\ ~use_sim_msg
    /\ ~ekf_vel_only

\* create_timer(1 / self.freq, self.pub_callback): the timer goes on firing
\* for as long as rclpy.spin runs, whatever else has been dispatched
EKF_free_timer ==
    /\ node = "EKFEstimationNode"
    /\ EKF_pub_callback

\* EKFEstimationNode under a timer that never stops: a bounded number of
\* sensor callbacks (no more once Steps has reached MaxSteps) between ticks
\* that never end
LiveNext ==
    \/ EKF_spin_gps
    \/ EKF_spin_mag
    \/ EKF_spin_inputs
    \/ EKF_free_timer

LiveSpec == EKF_live_init /\ [][LiveNext]_vars /\ WF_vars(EKF_free_timer)

(***************************************************************************)
(* Properties.                                                             *)
(***************************************************************************)
EKFMode ==
    \/ node = "EKFEstimationNode"
    \/ node = "StateEstimationNode" /\ estimation_alg = Str("extended_kalman_filter")

GroundTruthMode ==
    node = "StateEstimationNode" /\ estimation_alg = Str("ground_truth")

Invoked(op) == \E i \in 1..Len(last.calls) : last.calls[i].op = op

TickDone == last.handler = "tick"

\* the message the last tick published
Published == last.calls[Len(last.calls)].args[1]

\* C1: in EKF mode a tick invokes correct only if a GPS fix arrived since
\* the last tick that invoked correct, and gps_ready is false after that
\* tick; so correct is never invoked more often than GPS fixes arrived.
C1_CorrectOnlyOnFreshFix ==
    EKFMode =>
        /\ (TickDone /\ Invoked("correct")) => (last.pre_fix_since_correct /\ ~gps_ready)
        /\ correct_count <= gps_count

\* a tick of the EKF node has just run correct, after an earlier predict-only tick
C1_Witness ==
    /\ node = "EKFEstimationNode"
    /\ TickDone /\ Invoked("correct")
    /\ tick_count >= 2 /\ correct_count = 1

\* C2: every tick of the EKF node invokes predict exactly once, on the
\* state the tick found; when the freshness flag is set, correct follows
\* and receives what predict returned, and its result is the new state;
\* when the flag is unset, the new state is what predict returned.
C2_PredictThenCorrect ==
    node = "EKFEstimationNode" =>
        /\ predict_count = tick_count
        /\ TickDone =>
              LET c == last.calls
              IN  /\ CountOp(c, "predict") = 1
                  /\ c[1].op = "predict"
                  /\ c[1].args[1] = last.pre_state
                  /\ IF last.pre_gps_ready
                     THEN /\ CountOp(c, "correct") = 1
                          /\ c[2].op = "correct"
                          /\ c[2].args[1] = c[1].ret
                          /\ state = c[2].ret
                     ELSE /\ CountOp(c, "correct") = 0
                          /\ state = c[1].ret

\* a tick ran predict and correct, and predict had changed the state
C2_Witness ==
    /\ node = "EKFEstimationNode"
    /\ TickDone /\ Invoked("correct")
    /\ last.calls[1].ret /= last.pre_state

\* C3: a tick runs correct only if origin_set and orig_heading_set are
\* both true; with either latch unset the tick is predict-only.
C3_CorrectOnlyWhenFrameInitialized ==
    (node = "EKFEstimationNode" /\ TickDone /\ Invoked("correct"))
        => (origin_set /\ orig_heading_set)

\* C4: a first GPS fix with NaN latitude does not latch origin_set, and
\* set_graph is never called with the sentinel coordinates.
C4_OriginNotFromSentinel ==
    /\ \A i \in 1..Len(set_graph_calls) : set_graph_calls[i] /= << -10, -10, -10 >>
    /\ (last.handler = "gps" /\ gps_count = 1 /\ lat = -10) => ~origin_set

\* C5: set_graph and set_rotation are each called at most once; each latch
\* is set from the first sample of its stream on and never cleared; the
\* origin and rotation the graph holds are those of that one call.
C5_LatchesSetOnce ==
    /\ Len(set_graph_calls) <= 1
    /\ Len(set_rotation_calls) <= 1
    /\ origin_set <=> Len(set_graph_calls) = 1
    /\ orig_heading_set <=> Len(set_rotation_calls) = 1
    /\ gps_count > 0 => origin_set
    /\ mag_count > 0 => orig_heading_set
    /\ origin_set => (graph.has_origin /\ graph.origin = set_graph_calls[1])
    /\ orig_heading_set => (graph.has_rotation /\ graph.rotation = set_rotation_calls[1])

\* both latches are set and further samples of both streams have arrived
C5_Witness ==
    /\ gps_count >= 2 /\ mag_count >= 2
    /\ Len(set_graph_calls) = 1 /\ Len(set_rotation_calls) = 1
    /\ lat /= set_graph_calls[1][1]

C7_GraphCallsAfterSetup ==
    \A i \in 1..Len(last.calls) :
        last.calls[i].op \in {"gps2cartesian", "rotate"} => last.calls[i].pre

\* the very first GPS fix, before any magnetometer sample
C7_Witness ==
    /\ last.handler = "gps" /\ gps_count = 1 /\ mag_count = 0
    /\ Invoked("set_graph") /\ Invoked("gps2cartesian")

\* C8: in StateEstimationNode with "ground_truth" no tick invokes predict,
\* correct or the particle filter update, and no tick changes the state.
C8_GroundTruthNoEstimator ==
    GroundTruthMode =>
        /\ predict_count = 0 /\ correct_count = 0 /\ pf_count = 0
        /\ ~has_ekf /\ ~has_pf
        /\ TickDone => (state = last.pre_state /\ Ops(last.calls) = << "publish" >>)

\* a tick in ground-truth mode with a fresh GPS fix pending
C8_Witness ==
    /\ GroundTruthMode
    /\ TickDone /\ last.pre_gps_ready /\ orig_heading_set

\* C9: in StateEstimationNode with "ground_truth" every tick publishes the
\* latest ground-truth position (gtx, gty) and velocity (gtvx, gtvy).
C9_GroundTruthPublished ==
    (GroundTruthMode /\ TickDone) =>
        /\ Published.position_x = gtx
        /\ Published.position_y = gty
        /\ TwistValue(Published.linear_x) = gtvx
        /\ TwistValue(Published.linear_y) = gtvy

\* C10: in StateEstimationNode "extended_kalman_filter" constructs the EKF
\* and every tick runs the EKF step, "particle_filter" constructs the
\* particle filter and every tick runs its update, and the other estimator
\* is never invoked.
C10_ModeSelectsEstimator ==
    (node = "StateEstimationNode" /\ TickDone) =>
        /\ estimation_alg = Str("extended_kalman_filter") =>
              (has_ekf /\ predict_count = tick_count /\ pf_count = 0)
        /\ estimation_alg = Str("particle_filter") =>
              (has_pf /\ pf_count = tick_count /\ predict_count = 0)

SensorCallbackDone == last.handler \in {"gps", "mag", "inputs", "ground_truth"}

\* the value the last estimator call of the tick returned, or the state
\* the tick found when it called no estimator
TickResult ==
    LET est == { i \in 1..Len(last.calls) :
                    last.calls[i].op \in {"predict", "correct", "update"} }
    IN  IF est = {} THEN last.pre_state
        ELSE last.calls[CHOOSE i \in est : \A j \in est : j <= i].ret

PredictControl == last.calls[1].args[2]

\* C12: the control vector passed to predict on a tick is (throttle,
\* steering / 2.2) of the most recent control sample, however many samples
\* arrived since the previous tick, and (0, 0) if none ever arrived.
C12_ControlLatestValue ==
    (node = "EKFEstimationNode" /\ TickDone) =>
        /\ last.calls[1].op = "predict"
        /\ IF inputs_count = 0
           THEN PredictControl = << 0, 0 >>
           ELSE /\ PredictControl[1] = inputs.throttle
                \* steering / 2.2 in tenths, rounded down
                /\ 22 * PredictControl[2] <= 10 * inputs.steering
                /\ 10 * inputs.steering < 22 * (PredictControl[2] + 1)

\* two control samples arrived before the first tick, and the tick used
\* the nonzero one
C12_Witness ==
    /\ node = "EKFEstimationNode" /\ TickDone
    /\ inputs_count >= 2 /\ tick_count = 1
    /\ PredictControl = << 1, 5 >>

\* what pub_callback needs in order to run to its publish call: the
\* estimator its branch uses exists (this is the enabling condition of
\* EKF_spin_timer \/ SE_spin_timer while Steps < MaxSteps)
TimerCanRun ==
    IF node = "EKFEstimationNode" THEN has_ekf
    ELSE /\ SE_branch(estimation_alg) = "ekf" => has_ekf
         /\ SE_branch(estimation_alg) = "pf" => has_pf

\* C13: every tick publishes exactly one state estimate, in every mode and
\* frame state; no sensor callback publishes; and the timer callback can
\* always run, whatever the sensors have delivered.
C13_OnePublishPerTick ==
    /\ pub_count = tick_count
    /\ TickDone => /\ CountOp(last.calls, "publish") = 1
                   /\ last.calls[Len(last.calls)].op = "publish"
    /\ SensorCallbackDone => CountOp(last.calls, "publish") = 0
    /\ TimerCanRun

\* a second tick has published with the origin latched, the heading not,
\* and no fresh observation
C13_Witness ==
    /\ TickDone /\ pub_count >= 2
    /\ origin_set /\ ~orig_heading_set
    /\ ~last.pre_gps_ready

\* some component of the last GPS message is not a number
FixInvalid == isnan(gps.latitude) \/ isnan(gps.longitude) \/ isnan(gps.altitude)

\* C14: for a GPS fix with any component NaN the coordinates passed to
\* set_graph and gps2cartesian are the sentinel (-10, -10, -10); a fix with
\* all components finite is passed unchanged.
C14_NoInvalidFixReachesGraph ==
    last.handler = "gps" =>
        \A i \in 1..Len(last.calls) :
            last.calls[i].op \in {"set_graph", "gps2cartesian"} =>
                last.calls[i].args =
                    IF FixInvalid THEN << -10, -10, -10 >>
                    ELSE << gps.latitude, gps.longitude, gps.altitude >>

\* C15: once the frame is initialized, a GPS fix with NaN latitude is
\* dropped: it does not set the freshness flag and does not change the
\* buffered observation (x, y).
C15_NanFixDropped ==
    (/\ last.handler = "gps" /\ isnan(gps.latitude)
     /\ gps_count >= 2 /\ orig_heading_set) =>
        /\ gps_ready = last.pre_gps_ready
        /\ << x, y >> = last.pre_obs

PFMode ==
    node = "StateEstimationNode" /\ estimation_alg = Str("particle_filter")

\* C16: in PF mode each tick consumes the freshness flag, so gps_ready is
\* false after every tick, and a tick with no fresh GPS fix gives the
\* particle filter no observation.
C16_PFTickClearsFreshness ==
    (PFMode /\ TickDone) =>
        /\ ~gps_ready
        /\ ~last.pre_gps_ready =>
              \A i \in 1..Len(last.calls) :
                  last.calls[i].op = "update" => Len(last.calls[i].args) = 1

\* C17: a GPS fix that arrives while orig_heading_set is false does not
\* call set_graph and does not latch origin_set (the gps_callback
\* docstring: the origin is initialized only once the heading is set).
C17_OriginOnlyAfterHeading ==
    (node = "EKFEstimationNode" /\ last.handler = "gps" /\ ~orig_heading_set) =>
        (~Invoked("set_graph") /\ ~origin_set)

\* C18: set_rotation is called by the first magnetometer sample only, with
\* that sample's heading in radians minus init_theta (D = 90 degrees with
\* init_theta = 0 gives pi/2, 1571 milliradians); later samples change D
\* but never the rotation.
C18_RotationFromFirstSample ==
    /\ (last.handler = "mag" /\ mag_count = 1) =>
          /\ Invoked("set_rotation")
          /\ set_rotation_calls = << deg2rad(D) - init_theta >>
          /\ D = 90 => set_rotation_calls = << 1571 >>
          /\ D = 180 => set_rotation_calls = << 3142 >>
    /\ (last.handler = "mag" /\ mag_count > 1) => ~Invoked("set_rotation")
    /\ mag_count >= 1 =>
          /\ Len(set_rotation_calls) = 1
          /\ graph.has_rotation
          /\ graph.rotation = set_rotation_calls[1]

\* the first sample gave D = 90, a later sample a different heading, and
\* the rotation is still the quarter turn
C18_Witness ==
    /\ last.handler = "mag" /\ mag_count >= 2
    /\ D /= 90
    /\ set_rotation_calls = << 1571 >>
    /\ graph.rotation = 1571

\* C19: after every magnetometer callback the buffered heading D lies in
\* [0, 360) degrees, so the heading observation a tick builds lies in
\* [0, 2 pi) (2 pi is 6284 milliradians, rounded up).
C19_HeadingInCanonicalRange ==
    /\ mag_count > 0 => (0 <= D /\ D < 360)
    /\ (TickDone /\ Invoked("correct")) =>
          LET obs == last.calls[2].args[2]
          IN  0 <= obs[3] /\ obs[3] < 6284

\* the (x, y) that gps_callback stores for the fix f under the frame as it
\* now is: the sentinel substitution, the projection, the rotation and the
\* initial offset
ProjectionOf(f) ==
    LET nan == isnan(f.latitude)
        la == IF nan THEN -10 ELSE f.latitude
        lo == IF nan THEN -10 ELSE f.longitude
        al == IF nan THEN -10 ELSE f.altitude
        p == Graph_gps2cartesian(graph, la, lo, al)
        r == Graph_rotate(graph, p[1], p[2], p[3])
    IN  << FAdd(r[1], init_x), FAdd(r[2], init_y) >>

\* C20: callbacks run one at a time, so what a tick reads is a consistent
\* snapshot: the buffered (x, y) is the initial (0, 0) or the projection of
\* one single GPS fix, the buffered (throttle, steering) is the initial
\* (0, 0) or one single control sample, and the tick passes exactly these
\* to correct and predict.
C20_ConsistentSnapshot ==
    /\ \/ << x, y >> = << 0, 0 >>
       \/ \E f \in GpsFixes : << x, y >> = ProjectionOf(f)
    /\ \/ << throttle, steering >> = << 0, 0 >>
       \/ \E c \in ControlSamples : << throttle, steering >> = << c.throttle, c.steering >>
    /\ (TickDone /\ Invoked("predict")) =>
          last.calls[1].args[2] = << throttle, SteeringRatio(steering) >>
    /\ (TickDone /\ Invoked("correct")) =>
          /\ last.calls[2].args[2][1] = x
          /\ last.calls[2].args[2][2] = y

\* a tick has corrected against the projection of the second of two fixes
C20_Witness ==
    /\ TickDone /\ Invoked("correct")
    /\ gps_count >= 2
    /\ x /= 0 /\ y /= 0
    /\ ~isnan(x) /\ ~isnan(y)

\* C21: in EKFEstimationNode, with a timer that keeps firing, every GPS fix
\* is eventually followed by a tick that invokes correct; once GPS fixes stop
\* arriving the freshness flag eventually becomes false and stays false; and
\* a tick that finds the flag false is predict-only (predict, then publish).
C21_FixEventuallyCorrected ==
    /\ (last.handler = "gps") ~> (TickDone /\ Invoked("correct"))
    /\ <>[][gps_count' = gps_count]_vars => <>[](~gps_ready)
    /\ []((TickDone /\ ~last.pre_gps_ready) =>
             (~Invoked("correct") /\ last.calls[1].op = "predict" /\ ~gps_ready))

\* after the last fix was corrected against, a later tick found the flag
\* false and was predict-only, and the sensor callbacks have run out
C21_Witness ==
    /\ TickDone /\ ~Invoked("correct") /\ ~last.pre_gps_ready
    /\ gps_count >= 1 /\ correct_count >= 1
    /\ Steps >= MaxSteps

=============================================================================
